---- MODULE Spec2Model ----
(***************************************************************************)
(* Stock replenishment decision and command pipeline of the hospital       *)
(* supply chain central platform.                                          *)
(*                                                                         *)
(*   real_soap_service.py            DecisionEngine, StockUpdate,          *)
(*                                   CreateOrder (synchronous path)        *)
(*   stock_function_logic.py         ServerlessDecisionEngine,             *)
(*                                   OrderCommandGenerator, process_events *)
(*   StockEventProcessor/__init__.py main (persisting batch driver)        *)
(*   mock-server/app.py              stock_update_service (mock endpoint)  *)
(*                                                                         *)
(* Days of supply and thresholds are fixed-point numbers in tenths of a    *)
(* day (2.0 days is 20).  Stock and consumption are integers.              *)
(***************************************************************************)
EXTENDS Integers, Sequences, FiniteSets, TLC

VARIABLES
    eng,        \* decision-engine harness: a reading and the decisions made for it
    calls,      \* synchronous path: per worker thread, the call it serves
    store,      \* relational store: the committed rows
    batch       \* batch event path: the driver, its inbound batch and its progress

vars == <<eng, calls, store, batch>>

\* ------------------------------------------------------------------ bounds

MaxDays == 31        \* largest daysOfSupply drawn, tenths of a day
MaxDaily == 2        \* largest dailyConsumptionUnits drawn
MaxStock == 15       \* largest currentStockUnits drawn
MaxNeg == 1          \* readings are drawn down to -MaxNeg
NumWorkers == 2      \* worker threads serving synchronous calls, one call each
MaxSuffix == 2       \* distinct random suffixes of a generated order id
MaxBatch == 2        \* events in an inbound batch

\* ------------------------------------------------------- program constants

DecisionEngine_THRESHOLD_CRITICAL == 20
DecisionEngine_THRESHOLD_URGENT == 10
DecisionEngine_RESTOCK_DAYS == 7
ServerlessDecisionEngine_THRESHOLD_CRITICAL == 20
ServerlessDecisionEngine_THRESHOLD_URGENT == 10
ServerlessDecisionEngine_RESTOCK_DAYS == 7
\* event.get('daysOfSupply', 999): the default of an absent daysOfSupply
ServerlessDecisionEngine_DEFAULT_DAYS == 9990
\* event.get('dailyConsumptionUnits', 0), event.get('currentStockUnits', 0)
ServerlessDecisionEngine_DEFAULT_UNITS == 0
\* main: float(data.get('daysOfSupply', 99)), "if days < 2.0", qty=50
main_DEFAULT_DAYS == 990
main_THRESHOLD == 20
main_QTY == 50
\* mock-server/app.py: "if days_of_supply < 7"
mock_THRESHOLD == 70

\* ------------------------------------------------------------ dict fields

\* A field of an inbound dict: a number, absent, or present but not a number.
Num(n) == [tag |-> "num", val |-> n]
Missing == [tag |-> "missing", val |-> 0]
Text == [tag |-> "text", val |-> 0]

\* Python's max() of two integers.
max(a, b) == IF a >= b THEN a ELSE b

\* dict.get(key, default) followed by float()/int(): the number, the default
\* when the key is absent.  Only defined when Converts(field).
get(field, default) == IF field.tag = "missing" THEN default ELSE field.val

\* float()/int() raise ValueError on a non-numeric string.
Converts(field) == field.tag # "text"

\* ------------------------------------------------------- decision engines

\* Python's None as a priority is the spec's NONE.
NONE == "NONE"

\* real_soap_service.py line 107: the trigger test of DecisionEngine.evaluate
DecisionEngine_should_order(days_of_supply) ==
    days_of_supply < DecisionEngine_THRESHOLD_CRITICAL

\* real_soap_service.py lines 109-111: max(int(calc_quantity), daily_consumption)
DecisionEngine_order_quantity(daily_consumption, current_stock) ==
    LET target_stock == daily_consumption * DecisionEngine_RESTOCK_DAYS
        calc_quantity == target_stock - current_stock
    IN max(calc_quantity, daily_consumption)

\* real_soap_service.py lines 113-118
DecisionEngine_priority(days_of_supply) ==
    IF days_of_supply < DecisionEngine_THRESHOLD_URGENT THEN "URGENT" ELSE "HIGH"

\* real_soap_service.py DecisionEngine.evaluate
DecisionEngine_evaluate(days_of_supply, daily_consumption, current_stock) ==
    IF DecisionEngine_should_order(days_of_supply)
    THEN [should_order |-> TRUE,
          order_quantity |-> DecisionEngine_order_quantity(daily_consumption, current_stock),
          priority |-> DecisionEngine_priority(days_of_supply),
          reason |-> IF days_of_supply < DecisionEngine_THRESHOLD_URGENT
                     THEN <<"CRITICAL", days_of_supply, DecisionEngine_THRESHOLD_URGENT>>
                     ELSE <<"LOW STOCK", days_of_supply, DecisionEngine_THRESHOLD_CRITICAL>>]
    ELSE [should_order |-> FALSE, order_quantity |-> 0, priority |-> NONE,
          reason |-> <<"Adequate stock", days_of_supply>>]

\* The conversions at the head of ServerlessDecisionEngine.evaluate succeed
\* (float() and int() raise on a non-numeric string).
ServerlessDecisionEngine_converts(event) ==
    /\ Converts(event.daysOfSupply)
    /\ Converts(event.threshold)
    /\ Converts(event.dailyConsumptionUnits)
    /\ Converts(event.currentStockUnits)

ServerlessDecisionEngine_should_order_Leq(days_of_supply, threshold) ==
    days_of_supply <= threshold

\* stock_function_logic.py line 62
ServerlessDecisionEngine_should_order(days_of_supply, threshold) ==
    days_of_supply < threshold

ServerlessDecisionEngine_order_quantity_NoFloor(daily_consumption, current_stock) ==
    daily_consumption * ServerlessDecisionEngine_RESTOCK_DAYS - current_stock

\* stock_function_logic.py lines 66-67
ServerlessDecisionEngine_order_quantity(daily_consumption, current_stock) ==
    LET target_stock == daily_consumption * ServerlessDecisionEngine_RESTOCK_DAYS
    IN max(target_stock - current_stock, daily_consumption)

ServerlessDecisionEngine_priority_AlwaysUrgent(days_of_supply) ==
    "URGENT"

\* stock_function_logic.py lines 70-77
ServerlessDecisionEngine_priority(days_of_supply) ==
    IF days_of_supply < ServerlessDecisionEngine_THRESHOLD_URGENT THEN "URGENT" ELSE "HIGH"

\* stock_function_logic.py ServerlessDecisionEngine.evaluate, for an event
\* whose conversions succeed
ServerlessDecisionEngine_evaluate(event) ==
    LET days_of_supply == get(event.daysOfSupply, ServerlessDecisionEngine_DEFAULT_DAYS)
        threshold == get(event.threshold, ServerlessDecisionEngine_THRESHOLD_CRITICAL)
        daily_consumption == get(event.dailyConsumptionUnits, ServerlessDecisionEngine_DEFAULT_UNITS)
        current_stock == get(event.currentStockUnits, ServerlessDecisionEngine_DEFAULT_UNITS)
    IN IF ServerlessDecisionEngine_should_order(days_of_supply, threshold)
       THEN [should_order |-> TRUE,
             order_quantity |->
                 ServerlessDecisionEngine_order_quantity(daily_consumption, current_stock),
             priority |-> ServerlessDecisionEngine_priority(days_of_supply),
             reason |-> IF days_of_supply < ServerlessDecisionEngine_THRESHOLD_URGENT
                        THEN <<"CRITICAL", days_of_supply, ServerlessDecisionEngine_THRESHOLD_URGENT>>
                        ELSE <<"LOW STOCK", days_of_supply, threshold>>,
             days_of_supply |-> days_of_supply, threshold_used |-> threshold]
       ELSE [should_order |-> FALSE, order_quantity |-> 0, priority |-> NONE,
             reason |-> <<"Stock levels adequate", days_of_supply>>,
             days_of_supply |-> days_of_supply, threshold_used |-> threshold]

\* __init__.py main, lines 36-56: the decision main makes inline for a parsed
\* body (days < 2.0, quantity 50, priority URGENT); it reads daysOfSupply only.
main_decision(data) ==
    LET days == get(data.daysOfSupply, main_DEFAULT_DAYS)
    IN IF days < main_THRESHOLD
       THEN [should_order |-> TRUE, order_quantity |-> main_QTY, priority |-> "URGENT"]
       ELSE [should_order |-> FALSE, order_quantity |-> 0, priority |-> NONE]

\* ------------------------------------------- the three decision paths

\* The thresholds a low-inventory event may carry as its own override:
\* below THRESHOLD_URGENT, between the two, the default, above the default.
ThresholdOverrides == {5, 15, 20, 30}

\* A stock reading as a transport delivers it.  The event shape carries an
\* optional threshold; StockUpdateRequest (real_soap_service.py 58-65) has no
\* such field.
Readings ==
    [daysOfSupply : (0 - MaxNeg)..MaxDays,
     dailyConsumptionUnits : (0 - MaxNeg)..MaxDaily,
     currentStockUnits : (0 - MaxNeg)..MaxStock,
     threshold : {Missing} \cup {Num(t) : t \in ThresholdOverrides}]

\* The low-inventory event dict of a reading.
EventOf(r) ==
    [daysOfSupply |-> Num(r.daysOfSupply),
     dailyConsumptionUnits |-> Num(r.dailyConsumptionUnits),
     currentStockUnits |-> Num(r.currentStockUnits),
     threshold |-> r.threshold]

\* real_soap_service.py line 151: the decision StockUpdate takes for a request
StockUpdate_decision(request) ==
    DecisionEngine_evaluate(request.daysOfSupply, request.dailyConsumptionUnits,
                            request.currentStockUnits)

\* stock_function_logic.py line 184: the decision process_events takes
process_events_decision(event) == ServerlessDecisionEngine_evaluate(event)

EngInit ==
    \E r \in Readings :
        eng = [reading |-> r, soap |-> <<>>, serverless |-> <<>>, main |-> <<>>,
               command |-> <<>>]

\* The synchronous path decides the reading.
EngStockUpdate ==
    /\ eng.soap = <<>>
    /\ eng' = [eng EXCEPT !.soap = <<StockUpdate_decision(eng.reading)>>]
    /\ UNCHANGED <<calls, store, batch>>

\* process_events decides the reading's event.
EngProcessEvents ==
    /\ eng.serverless = <<>>
    /\ eng' = [eng EXCEPT !.serverless = <<process_events_decision(EventOf(eng.reading))>>]
    /\ UNCHANGED <<calls, store, batch>>

\* The persisting driver decides the reading's event.
EngMain ==
    /\ eng.main = <<>>
    /\ eng' = [eng EXCEPT !.main = <<main_decision(EventOf(eng.reading))>>]
    /\ UNCHANGED <<calls, store, batch>>

\* The decisions the two Decision Engines have returned for the reading, each
\* with the threshold in force for it: the event's own override when given,
\* else 2.0; a StockUpdateRequest cannot carry one.
EngineDecisions ==
    {[d |-> eng.soap[i], threshold |-> DecisionEngine_THRESHOLD_CRITICAL] :
        i \in DOMAIN eng.soap}
    \cup
    {[d |-> eng.serverless[i],
      threshold |-> get(eng.reading.threshold, ServerlessDecisionEngine_THRESHOLD_CRITICAL)] :
        i \in DOMAIN eng.serverless}

\* C1: a reading at or above the threshold in force gets shouldOrder=false,
\* orderQuantity=0, priority=NONE; every decision with shouldOrder=false has
\* priority NONE and quantity 0, and every URGENT decision has shouldOrder=true.
C1_AdequateMeansNoOrder ==
    \A e \in EngineDecisions :
        /\ eng.reading.daysOfSupply >= e.threshold =>
              /\ e.d.should_order = FALSE
              /\ e.d.order_quantity = 0
              /\ e.d.priority = NONE
        /\ e.d.should_order = FALSE => (e.d.priority = NONE /\ e.d.order_quantity = 0)
        /\ e.d.priority = "URGENT" => e.d.should_order = TRUE

\* A reading exactly at its own override threshold, above 2.0, was evaluated
\* by the event-path engine, and one exactly at 2.0 by the SOAP engine.
C1_Witness ==
    /\ eng.serverless # <<>>
    /\ eng.soap # <<>>
    /\ eng.reading.threshold = Num(30)
    /\ eng.reading.daysOfSupply = 30
    /\ eng.serverless[1].should_order = FALSE

\* C2: a triggering reading (daysOfSupply below the threshold in force) is
\* URGENT below 1.0 day and HIGH from 1.0 day up, whatever its stock,
\* consumption and computed quantity.
C2_PriorityByDaysOnly ==
    \A e \in EngineDecisions :
        eng.reading.daysOfSupply < e.threshold =>
            e.d.priority = IF eng.reading.daysOfSupply < 10 THEN "URGENT" ELSE "HIGH"

\* A HIGH decision for a reading at exactly 1.0 day whose stock is below one
\* day's consumption.
C2_Witness ==
    /\ eng.serverless # <<>>
    /\ eng.reading.daysOfSupply = 10
    /\ eng.reading.currentStockUnits < eng.reading.dailyConsumptionUnits
    /\ eng.serverless[1].priority = "HIGH"

\* C3: for a triggering reading with non-negative consumption and stock the
\* quantity is the larger of (7 * dailyConsumption - currentStock) and
\* dailyConsumption.
C3_QuantityFormula ==
    \A e \in EngineDecisions :
        LET r == eng.reading
            target == r.dailyConsumptionUnits * 7 - r.currentStockUnits
        IN (/\ r.daysOfSupply < e.threshold
            /\ r.dailyConsumptionUnits >= 0
            /\ r.currentStockUnits >= 0) =>
               /\ e.d.order_quantity >= target
               /\ e.d.order_quantity >= r.dailyConsumptionUnits
               /\ e.d.order_quantity \in {target, r.dailyConsumptionUnits}

\* A triggering reading whose stock exceeds the 7-day target: the quantity is
\* one day's consumption.
C3_Witness ==
    /\ eng.serverless # <<>>
    /\ eng.soap # <<>>
    /\ eng.reading.daysOfSupply = 15
    /\ eng.reading.dailyConsumptionUnits = 2
    /\ eng.reading.currentStockUnits = 15
    /\ eng.serverless[1].order_quantity = 2
    /\ eng.soap[1].order_quantity = 2

\* The fields of a decision the paths must agree on.
Outcome(d) == <<d.should_order, d.priority, d.order_quantity>>

\* C4: for the same reading the synchronous path, process_events and the
\* persisting driver main decide the same shouldOrder, priority and quantity.
C4_PathsAgree ==
    (/\ eng.soap # <<>> /\ eng.serverless # <<>> /\ eng.main # <<>>
     /\ eng.reading.daysOfSupply >= 0
     /\ eng.reading.dailyConsumptionUnits >= 0
     /\ eng.reading.currentStockUnits >= 0) =>
        /\ Outcome(eng.soap[1]) = Outcome(eng.serverless[1])
        /\ Outcome(eng.soap[1]) = Outcome(eng.main[1])

\* ------------------------------------------------------ relational store

\* Python's None / an absent id.
None == <<>>

\* The 8-hex-character suffixes uuid4().hex[:8] can take.
Suffixes == 1..MaxSuffix

\* What str(e) of a failed step may say.
ErrorDetails == {"connection refused", "duplicate key value"}

\* A row of the store.  xmin is the inserting transaction (one per call).
\* hospital_id and product_code are kept for the orders of CreateOrder, whose
\* request carries them into the row; the other rows leave them None.
Row(table, xmin, event_id, order_id, decision_type, order_quantity, priority, source, notes) ==
    [table |-> table, xmin |-> xmin, event_id |-> event_id, order_id |-> order_id,
     decision_type |-> decision_type, order_quantity |-> order_quantity,
     priority |-> priority, source |-> source, notes |-> notes,
     hospital_id |-> None, product_code |-> None]

\* real_soap_service.py lines 145-148
StockEventRow(w, event_id) ==
    Row("StockEvents", w, event_id, None, "", 0, "", "SOA", "")

\* real_soap_service.py lines 157-160
OrderRow(w, order_id, decision) ==
    Row("Orders", w, None, order_id, "", decision.order_quantity, decision.priority,
        "SOA", "")

\* real_soap_service.py lines 162-163
OrderCreatedLogRow(w, event_id, order_id) ==
    Row("DecisionLogs", w, event_id, order_id, "ORDER_CREATED", 0, "", "", "")

\* real_soap_service.py lines 169-170
OrderSkippedLogRow(w, event_id) ==
    Row("DecisionLogs", w, event_id, None, "ORDER_SKIPPED", 0, "", "", "")

\* real_soap_service.py lines 175-176 and 223-224
ESBLogRow(w, message_id, target_service) ==
    Row("ESBLogs", w, message_id, None, "", 0, "", target_service, "")

ManualOrderRow_ViaEngine(w, order_id, request) ==
    [Row("Orders", w, None, order_id, "",
         max(request.orderQuantity, 1),
         IF request.priority \in {"URGENT", "HIGH"} THEN request.priority ELSE "HIGH",
         "SOA", "Created via OrderCreationService")
        EXCEPT !.hospital_id = request.hospitalId, !.product_code = request.productCode]

\* real_soap_service.py lines 207-217
ManualOrderRow(w, order_id, request) ==
    [Row("Orders", w, None, order_id, "", request.orderQuantity, request.priority,
         "SOA", "Created via OrderCreationService")
        EXCEPT !.hospital_id = request.hospitalId, !.product_code = request.productCode]

Rollback_Autocommit(tx) == tx

\* real_soap_service.py lines 182 and 232, conn.rollback(): the rows of the
\* call's transaction that stay in the store after it (none).
Rollback(tx) == {}

\* ------------------------------------------------------ synchronous path

Workers == 1..NumWorkers

\* StockUpdateRequest payloads: an URGENT, a HIGH and an adequate reading.
StockUpdateRequests ==
    [daysOfSupply : {5, 15, 25}, dailyConsumptionUnits : {2}, currentStockUnits : {1}]

\* OrderCreationRequest payloads: one without orderId, with a quantity of 0
\* and a priority the Decision Engine never returns, and one with a
\* caller-supplied orderId.
OrderCreationRequests ==
    {[orderId |-> None, hospitalId |-> "HOSP-A", productCode |-> "MASK-N95",
      orderQuantity |-> 0, priority |-> "NORMAL"],
     [orderId |-> <<"REQ", 1>>, hospitalId |-> "HOSP-B", productCode |-> "GLOVE-L",
      orderQuantity |-> 5, priority |-> "URGENT"]}

\* A worker thread that serves no call yet.
IdleCall ==
    [op |-> "none", pc |-> "idle", request |-> None, tx |-> {}, decision |-> None,
     order_id |-> None, failed |-> FALSE, result |-> None]

\* real_soap_service.py line 142: event_id = f"evt-{uuid.uuid4()}", fresh per call
EventId(w) == <<"evt", w>>

\* real_soap_service.py line 156
GeneratedOrderId(suffix) == <<"ORD-YYYYMMDD", suffix>>

\* real_soap_service.py line 204
ManualOrderId(request, suffix) ==
    IF request.orderId # None THEN request.orderId ELSE <<"ORD-MANUAL", suffix>>

\* A message of a result: its fixed text, the order id it embeds, and the
\* text of the internal error it embeds ("" when none).
Message(text, order_id, error) == [text |-> text, order_id |-> order_id, error |-> error]

StockUpdateResult_Created_NoOrderId(order_id) ==
    [success |-> TRUE, message |-> Message("Order created: ", order_id, ""),
     orderTriggered |-> "true", orderId |-> None, fault |-> ""]

\* real_soap_service.py lines 152-153, 165-167: the result of a triggered call
StockUpdateResult_Created(order_id) ==
    [success |-> TRUE, message |-> Message("Order created: ", order_id, ""),
     orderTriggered |-> "true", orderId |-> order_id, fault |-> ""]

\* real_soap_service.py lines 152-153, 171-172
StockUpdateResult_Adequate ==
    [success |-> TRUE, message |-> Message("Stock adequate", None, ""),
     orderTriggered |-> "false", orderId |-> None, fault |-> ""]

\* real_soap_service.py line 184: orderTriggered and orderId are left unset
StockUpdateResult_Error(e) ==
    [success |-> FALSE, message |-> Message("Internal Server Error", None, ""),
     orderTriggered |-> "none", orderId |-> None, fault |-> ""]

\* real_soap_service.py line 229
OrderCreationResult_Ok(order_id) ==
    [success |-> TRUE, message |-> Message("Order processed", None, ""),
     orderTriggered |-> "none", orderId |-> order_id, fault |-> ""]

\* real_soap_service.py line 234: message=f"Error: {str(e)}", orderId=""
OrderCreationResult_Error(e) ==
    [success |-> FALSE, message |-> Message("Error: ", None, e),
     orderTriggered |-> "none", orderId |-> None, fault |-> ""]

Commit_SharedConnection(w) == UNION {calls[v].tx : v \in Workers}

\* real_soap_service.py lines 140, 178 (and 200, 226): conn.commit() on the
\* connection get_db_connection() opened for this call; the rows it makes
\* visible are those of the call's own transaction.
Commit(w) == calls[w].tx

SyncInit ==
    /\ calls = [w \in Workers |-> IdleCall]
    /\ store = {}

\* A StockUpdate request arrives at worker w (real_soap_service.py 130-138).
StockUpdate_Receive(w) ==
    /\ calls[w].pc = "idle"
    /\ \E request \in StockUpdateRequests :
          calls' = [calls EXCEPT ![w] =
                       [IdleCall EXCEPT !.op = "StockUpdate", !.pc = "connect",
                                        !.request = request]]
    /\ UNCHANGED <<eng, store, batch>>

\* The except/finally blocks of StockUpdate (lines 181-186) after a step
\* raised e with the connection open: rollback, then the generic result; a
\* rollback that itself raises leaves the handler with that exception.
StockUpdate_Except(w, e) ==
    \E rollback_ok \in BOOLEAN :
        /\ calls' = [calls EXCEPT ![w].tx = {}, ![w].failed = TRUE,
                        ![w].pc = IF rollback_ok THEN "responded" ELSE "raised",
                        ![w].result = IF rollback_ok THEN <<StockUpdateResult_Error(e)>>
                                      ELSE None]
        /\ store' = store \cup Rollback(calls[w].tx)

\* get_db_connection() (lines 40-52, 140): it returns a connection, or raises
\* with conn still None, and the handler returns the generic result.
StockUpdate_Connect(w) ==
    /\ calls[w].op = "StockUpdate" /\ calls[w].pc = "connect"
    /\ \/ calls' = [calls EXCEPT ![w].pc = "insert_event"]
       \/ \E e \in ErrorDetails :
             calls' = [calls EXCEPT ![w].pc = "responded", ![w].failed = TRUE,
                                    ![w].result = <<StockUpdateResult_Error(e)>>]
    /\ UNCHANGED <<eng, store, batch>>

\* Lines 142-148: the StockEvents insert.
StockUpdate_InsertEvent(w) ==
    /\ calls[w].op = "StockUpdate" /\ calls[w].pc = "insert_event"
    /\ \/ /\ calls' = [calls EXCEPT ![w].pc = "decide",
                          ![w].tx = @ \cup {StockEventRow(w, EventId(w))}]
          /\ UNCHANGED store
       \/ \E e \in ErrorDetails : StockUpdate_Except(w, e)
    /\ UNCHANGED <<eng, batch>>

\* Lines 151-155: the decision.
StockUpdate_Decide(w) ==
    /\ calls[w].op = "StockUpdate" /\ calls[w].pc = "decide"
    /\ LET decision == StockUpdate_decision(calls[w].request)
       IN calls' = [calls EXCEPT ![w].decision = <<decision>>,
                       ![w].pc = IF decision.should_order THEN "insert_order"
                                 ELSE "insert_skipped_log"]
    /\ UNCHANGED <<eng, store, batch>>

\* Lines 156-160: the order id and the Orders insert.
StockUpdate_InsertOrder(w) ==
    /\ calls[w].op = "StockUpdate" /\ calls[w].pc = "insert_order"
    /\ \/ /\ \E suffix \in Suffixes :
                LET order_id == GeneratedOrderId(suffix)
                IN calls' = [calls EXCEPT ![w].pc = "insert_created_log",
                                ![w].order_id = order_id,
                                ![w].tx = @ \cup {OrderRow(w, order_id, calls[w].decision[1])}]
          /\ UNCHANGED store
       \/ \E e \in ErrorDetails : StockUpdate_Except(w, e)
    /\ UNCHANGED <<eng, batch>>

\* Lines 162-167: the ORDER_CREATED decision log insert.
StockUpdate_InsertCreatedLog(w) ==
    /\ calls[w].op = "StockUpdate" /\ calls[w].pc = "insert_created_log"
    /\ \/ /\ calls' = [calls EXCEPT ![w].pc = "insert_esb_log",
                          ![w].tx = @ \cup {OrderCreatedLogRow(w, EventId(w), calls[w].order_id)}]
          /\ UNCHANGED store
       \/ \E e \in ErrorDetails : StockUpdate_Except(w, e)
    /\ UNCHANGED <<eng, batch>>

\* Lines 169-172: the ORDER_SKIPPED decision log insert.
StockUpdate_InsertSkippedLog(w) ==
    /\ calls[w].op = "StockUpdate" /\ calls[w].pc = "insert_skipped_log"
    /\ \/ /\ calls' = [calls EXCEPT ![w].pc = "insert_esb_log",
                          ![w].tx = @ \cup {OrderSkippedLogRow(w, EventId(w))}]
          /\ UNCHANGED store
       \/ \E e \in ErrorDetails : StockUpdate_Except(w, e)
    /\ UNCHANGED <<eng, batch>>

\* Lines 175-176: the ESBLogs insert.
StockUpdate_InsertESBLog(w) ==
    /\ calls[w].op = "StockUpdate" /\ calls[w].pc = "insert_esb_log"
    /\ \/ /\ calls' = [calls EXCEPT ![w].pc = "commit",
                          ![w].tx = @ \cup {ESBLogRow(w, EventId(w), "StockUpdateService")}]
          /\ UNCHANGED store
       \/ \E e \in ErrorDetails : StockUpdate_Except(w, e)
    /\ UNCHANGED <<eng, batch>>

\* Lines 178-179: commit makes the transaction's rows visible, and the
\* response built on the way is returned.
StockUpdate_Commit(w) ==
    /\ calls[w].op = "StockUpdate" /\ calls[w].pc = "commit"
    /\ \/ /\ store' = store \cup Commit(w)
          /\ calls' = [calls EXCEPT ![w].pc = "responded", ![w].tx = {},
                          ![w].result =
                              IF calls[w].decision[1].should_order
                              THEN <<StockUpdateResult_Created(calls[w].order_id)>>
                              ELSE <<StockUpdateResult_Adequate>>]
       \/ \E e \in ErrorDetails : StockUpdate_Except(w, e)
    /\ UNCHANGED <<eng, batch>>

\* A CreateOrder request arrives at worker w (real_soap_service.py 194-198).
CreateOrder_Receive(w) ==
    /\ calls[w].pc = "idle"
    /\ \E request \in OrderCreationRequests :
          calls' = [calls EXCEPT ![w] =
                       [IdleCall EXCEPT !.op = "CreateOrder", !.pc = "connect",
                                        !.request = request]]
    /\ UNCHANGED <<eng, store, batch>>

\* The except/finally blocks of CreateOrder (lines 231-236) after a step
\* raised e with the connection open.
CreateOrder_Except(w, e) ==
    \E rollback_ok \in BOOLEAN :
        /\ calls' = [calls EXCEPT ![w].tx = {}, ![w].failed = TRUE,
                        ![w].pc = IF rollback_ok THEN "responded" ELSE "raised",
                        ![w].result = IF rollback_ok THEN <<OrderCreationResult_Error(e)>>
                                      ELSE None]
        /\ store' = store \cup Rollback(calls[w].tx)

\* Line 200: get_db_connection().
CreateOrder_Connect(w) ==
    /\ calls[w].op = "CreateOrder" /\ calls[w].pc = "connect"
    /\ \/ calls' = [calls EXCEPT ![w].pc = "insert_order"]
       \/ \E e \in ErrorDetails :
             calls' = [calls EXCEPT ![w].pc = "responded", ![w].failed = TRUE,
                                    ![w].result = <<OrderCreationResult_Error(e)>>]
    /\ UNCHANGED <<eng, store, batch>>

\* Lines 204-217: the order id and the Orders insert.
CreateOrder_InsertOrder(w) ==
    /\ calls[w].op = "CreateOrder" /\ calls[w].pc = "insert_order"
    /\ \/ /\ \E suffix \in Suffixes :
                LET order_id == ManualOrderId(calls[w].request, suffix)
                IN calls' = [calls EXCEPT ![w].pc = "insert_esb_log",
                                ![w].order_id = order_id,
                                ![w].tx = @ \cup {ManualOrderRow(w, order_id, calls[w].request)}]
          /\ UNCHANGED store
       \/ \E e \in ErrorDetails : CreateOrder_Except(w, e)
    /\ UNCHANGED <<eng, batch>>

\* Lines 223-224: the ESBLogs insert.
CreateOrder_InsertESBLog(w) ==
    /\ calls[w].op = "CreateOrder" /\ calls[w].pc = "insert_esb_log"
    /\ \/ /\ calls' = [calls EXCEPT ![w].pc = "commit",
                          ![w].tx = @ \cup {ESBLogRow(w, calls[w].order_id, "OrderCreationService")}]
          /\ UNCHANGED store
       \/ \E e \in ErrorDetails : CreateOrder_Except(w, e)
    /\ UNCHANGED <<eng, batch>>

\* Lines 226-229: commit and the success result.
CreateOrder_Commit(w) ==
    /\ calls[w].op = "CreateOrder" /\ calls[w].pc = "commit"
    /\ \/ /\ store' = store \cup Commit(w)
          /\ calls' = [calls EXCEPT ![w].pc = "responded", ![w].tx = {},
                          ![w].result = <<OrderCreationResult_Ok(calls[w].order_id)>>]
       \/ \E e \in ErrorDetails : CreateOrder_Except(w, e)
    /\ UNCHANGED <<eng, batch>>

\* -------------------------------------------------------- mock endpoint

\* What parse_stock_update_request (mock-server/app.py 72-120) returns: None
\* for an envelope it cannot parse, else the fields' texts; the text of
\* daysOfSupply is a number or not (an absent element gives None, which
\* float() rejects like a non-numeric text).
MockParsedRequests == {None} \cup {<<[daysOfSupply |-> f]>> : f \in {Text, Num(15), Num(65), Num(70)}}

\* mock-server/app.py line 160
MockOrderId(suffix) == <<"ORD-MOCK", suffix>>

\* mock-server/app.py lines 156-163: the mock's own trigger test
mock_order_triggered(parsed_request) ==
    /\ Converts(parsed_request.daysOfSupply)
    /\ parsed_request.daysOfSupply.val < mock_THRESHOLD

\* mock-server/app.py lines 29-44, 166-171: an orderId element with the id, or
\* an empty orderId element (no id) when order_id is None
create_soap_response(success, message, order_triggered, order_id) ==
    [success |-> success, message |-> Message(message, None, ""),
     orderTriggered |-> IF order_triggered THEN "true" ELSE "false",
     orderId |-> order_id, fault |-> ""]

\* mock-server/app.py lines 47-69, 142-148
create_soap_fault(error_code) ==
    [success |-> FALSE, message |-> Message("Could not parse SOAP request", None, ""),
     orderTriggered |-> "none", orderId |-> None, fault |-> error_code]

\* mock-server/app.py lines 123-175: the mock StockUpdateService endpoint
\* serves one request.
stock_update_service(w) ==
    /\ calls[w].pc = "idle"
    /\ \E parsed \in MockParsedRequests :
          IF parsed = None
          THEN calls' = [calls EXCEPT ![w] =
                  [IdleCall EXCEPT !.op = "Mock", !.pc = "responded", !.failed = TRUE,
                                   !.result = <<create_soap_fault("PARSE_ERROR")>>]]
          ELSE \E suffix \in Suffixes :
                  LET order_triggered == mock_order_triggered(parsed[1])
                      order_id == IF order_triggered THEN MockOrderId(suffix) ELSE None
                  IN calls' = [calls EXCEPT ![w] =
                        [IdleCall EXCEPT !.op = "Mock", !.pc = "responded",
                             !.request = parsed,
                             !.decision = <<[should_order |-> order_triggered]>>,
                             !.order_id = order_id,
                             !.result = <<create_soap_response(TRUE,
                                 "Mock received - Stock update processed successfully",
                                 order_triggered, order_id)>>]]
    /\ UNCHANGED <<eng, store, batch>>

\* ---------------------------------------- claims on the synchronous path

\* The committed orders StockUpdate created (CreateOrder's carry its note).
StockUpdateOrders ==
    {r \in store : r.table = "Orders" /\ r.source = "SOA" /\ r.notes = ""}

\* The committed ORDER_CREATED decision log entries.
OrderCreatedLogs ==
    {r \in store : r.table = "DecisionLogs" /\ r.decision_type = "ORDER_CREATED"}

\* C5: whatever calls ran and wherever they failed, the store holds an order
\* created by StockUpdate iff it holds the ORDER_CREATED decision log entry
\* written with it and naming its order id.
C5_OrderIffDecisionLog ==
    /\ \A o \in StockUpdateOrders :
          \E l \in OrderCreatedLogs : l.order_id = o.order_id /\ l.xmin = o.xmin
    /\ \A l \in OrderCreatedLogs :
          \E o \in StockUpdateOrders : o.order_id = l.order_id /\ o.xmin = l.xmin

\* One call committed its order and log, and another failed after it had
\* inserted its order.
C5_Witness ==
    \E v, w \in Workers :
        /\ v # w
        /\ \E o \in StockUpdateOrders : o.xmin = v
        /\ calls[w].op = "StockUpdate"
        /\ calls[w].failed
        /\ calls[w].order_id # None

\* The workers holding a result of a StockUpdate endpoint.
StockUpdateResults ==
    {w \in Workers : calls[w].op \in {"StockUpdate", "Mock"} /\ calls[w].result # None}

\* The handler of worker w decided shouldOrder=true.
DecidedToOrder(w) == calls[w].decision # None /\ calls[w].decision[1].should_order

\* C6 as stated: in every StockUpdate result, orderId is present iff
\* orderTriggered is true, and orderTriggered is true exactly when the
\* decision for the reading was shouldOrder=true.
C6_TriggeredIffDecided ==
    \A w \in StockUpdateResults :
        LET r == calls[w].result[1]
        IN /\ (r.orderId # None) <=> (r.orderTriggered = "true")
           /\ (r.orderTriggered = "true") <=> DecidedToOrder(w)

\* C6 amended: in every StockUpdate result, orderId is present iff
\* orderTriggered is true; orderTriggered is true only when the decision was
\* shouldOrder=true, and in a result with success=true exactly then.
C6_TriggeredIffDecidedAndSucceeded ==
    \A w \in StockUpdateResults :
        LET r == calls[w].result[1]
        IN /\ (r.orderId # None) <=> (r.orderTriggered = "true")
           /\ (r.orderTriggered = "true") => DecidedToOrder(w)
           /\ r.success => ((r.orderTriggered = "true") <=> DecidedToOrder(w))

\* A call that decided shouldOrder=true, failed afterwards and returned the
\* failure result, beside a call that returned a triggered result.
C6_Witness ==
    \E v, w \in StockUpdateResults :
        /\ calls[w].op = "StockUpdate" /\ DecidedToOrder(w) /\ calls[w].failed
        /\ calls[v].op = "StockUpdate" /\ calls[v].result[1].orderTriggered = "true"

\* C7: a StockUpdate or CreateOrder call in which a step failed returns a
\* result with success=false whose message carries no text of the internal
\* error, and does not raise.
C7_FailureIsGenericResult ==
    \A w \in Workers :
        (calls[w].op \in {"StockUpdate", "CreateOrder"} /\ calls[w].failed) =>
            /\ calls[w].pc = "responded"
            /\ calls[w].result # None
            /\ calls[w].result[1].success = FALSE
            /\ calls[w].result[1].message.error = ""

\* The committed rows of the transaction of worker w's call.
RowsOf(w) == {r \in store : r.xmin = w}

\* C21: a CreateOrder call that succeeded has persisted exactly one order,
\* which carries the hospitalId, productCode, orderQuantity and priority of
\* its payload unchanged, whatever their values; it evaluates no reading and
\* writes no decision log entry.
C21_ManualOrderBypassesEngine ==
    \A w \in Workers :
        calls[w].op = "CreateOrder" =>
            /\ calls[w].decision = None
            /\ \A r \in RowsOf(w) : r.table # "DecisionLogs"
            /\ \A r \in RowsOf(w) :
                  r.table = "Orders" =>
                      /\ r.hospital_id = calls[w].request.hospitalId
                      /\ r.product_code = calls[w].request.productCode
                      /\ r.order_quantity = calls[w].request.orderQuantity
                      /\ r.priority = calls[w].request.priority
            /\ (calls[w].result # None /\ calls[w].result[1].success) =>
                  Cardinality({r \in RowsOf(w) : r.table = "Orders"}) = 1

\* A CreateOrder call has persisted an order of quantity 0 and priority
\* NORMAL, neither of which the Decision Engine returns for a trigger.
C21_Witness ==
    \E w \in Workers :
        /\ calls[w].op = "CreateOrder"
        /\ calls[w].result # None /\ calls[w].result[1].success
        /\ \E r \in RowsOf(w) :
              r.table = "Orders" /\ r.order_quantity = 0 /\ r.priority = "NORMAL"

\* The rows a StockUpdate call writes when it runs alone and no step fails,
\* for its request and the order id it drew.
SerialRows(w) ==
    LET decision == StockUpdate_decision(calls[w].request)
    IN {StockEventRow(w, EventId(w)), ESBLogRow(w, EventId(w), "StockUpdateService")}
       \cup (IF decision.should_order
              THEN {OrderRow(w, calls[w].order_id, decision),
                    OrderCreatedLogRow(w, EventId(w), calls[w].order_id)}
              ELSE {OrderSkippedLogRow(w, EventId(w))})

\* The result a StockUpdate call returns when it runs alone and no step fails.
SerialResult(w) ==
    IF StockUpdate_decision(calls[w].request).should_order
    THEN StockUpdateResult_Created(calls[w].order_id)
    ELSE StockUpdateResult_Adequate

\* C22: for every interleaving of the StockUpdate calls, a call that finished
\* without a failed step has returned the result and committed exactly the
\* rows of its run alone, and they stay whatever the other calls do; a call
\* in flight or failed has no committed row.
C22_InterleavingIsSerial ==
    \A w \in Workers :
        calls[w].op = "StockUpdate" =>
            IF calls[w].pc = "responded" /\ ~calls[w].failed
            THEN /\ RowsOf(w) = SerialRows(w)
                 /\ calls[w].result = <<SerialResult(w)>>
            ELSE /\ RowsOf(w) = {}
                 /\ calls[w].result # None =>
                       calls[w].result = <<StockUpdateResult_Error("")>>

\* A call has committed the rows of an adequate reading, and the other, with
\* its order inserted, failed and was rolled back after that commit or
\* before it.
C22_Witness ==
    \E v, w \in Workers :
        /\ v # w
        /\ calls[v].op = "StockUpdate" /\ calls[v].pc = "responded" /\ ~calls[v].failed
        /\ \E r \in RowsOf(v) : r.decision_type = "ORDER_SKIPPED"
        /\ calls[w].op = "StockUpdate" /\ calls[w].pc = "responded" /\ calls[w].failed
        /\ calls[w].order_id # None

\* C23: a StockUpdate result carrying an orderId is returned only with the
\* order of that id committed; a call in which the commit or a step before
\* it failed ends with a result of success=false and no orderId, and none of
\* its rows is in the store.
C23_ResultAfterCommit ==
    \A w \in Workers :
        calls[w].op = "StockUpdate" =>
            /\ (calls[w].result # None /\ calls[w].result[1].orderId # None) =>
                  \E r \in RowsOf(w) :
                      r.table = "Orders" /\ r.order_id = calls[w].result[1].orderId
            /\ calls[w].failed =>
                  /\ RowsOf(w) = {}
                  /\ calls[w].result # None
                  /\ calls[w].result[1].success = FALSE
                  /\ calls[w].result[1].orderId = None

\* C15: a stock-update request whose daysOfSupply is absent or not a number
\* is rejected with a fault: it yields no success result and no order.
C15_InvalidRequestFaults ==
    \A w \in Workers :
        (/\ calls[w].op = "Mock"
         /\ calls[w].request # None
         /\ ~Converts(calls[w].request[1].daysOfSupply)
         /\ calls[w].result # None) =>
            /\ calls[w].result[1].success = FALSE
            /\ calls[w].result[1].fault # ""
            /\ calls[w].order_id = None

\* C17: no two StockUpdate calls, served concurrently or one after the other,
\* generate the same order id.
C17_NoOrderIdCollision ==
    \A v, w \in Workers :
        (/\ v # w
         /\ calls[v].op = "StockUpdate" /\ calls[v].order_id # None
         /\ calls[w].op = "StockUpdate" /\ calls[w].order_id # None) =>
            calls[v].order_id # calls[w].order_id

\* C18: the id of an order a synchronous call creates is the orderId the
\* caller supplied, verbatim; when none was supplied it is generated in the
\* form ORD-<YYYYMMDD>-<8 hex characters>.
C18_OrderIdVerbatimOrFormatted ==
    \A w \in Workers :
        (calls[w].op \in {"StockUpdate", "CreateOrder"} /\ calls[w].order_id # None) =>
            IF calls[w].op = "CreateOrder" /\ calls[w].request.orderId # None
            THEN calls[w].order_id = calls[w].request.orderId
            ELSE calls[w].order_id[1] = "ORD-YYYYMMDD"

\* C20: a StockUpdate call that has left its handler, whether every step
\* succeeded or one failed, has returned exactly one result (a call that
\* leaves without one never returns a result).
C20_CallReturnsOneResult ==
    \A w \in Workers :
        (calls[w].op = "StockUpdate" /\ calls[w].pc \in {"responded", "raised"}) =>
            /\ calls[w].result # None
            /\ Len(calls[w].result) = 1

\* ------------------------------------------------------ batch event path

\* The eventId values the events of a batch carry (event_producer_sim.py line
\* 88); a redelivered event carries the eventId of its first delivery.
EventIds == {"evt-a", "evt-b"}

\* The bodies of the low-inventory events of an inbound batch.  "garbage" is
\* a body json.loads rejects; process_events is handed parsed dicts only.
ParsedEvents ==
    [body : {"json"},
     eventId : EventIds,
     daysOfSupply : {Num(5), Num(15), Num(25), Missing, Text},
     dailyConsumptionUnits : {Num(2), Text},
     currentStockUnits : {Num(1)},
     threshold : {Missing, Num(30)}]

GarbageEvent ==
    [body |-> "garbage", eventId |-> "", daysOfSupply |-> Missing, dailyConsumptionUnits |-> Missing,
     currentStockUnits |-> Missing, threshold |-> Missing]

\* The event bodies main is handed: main reads the body and daysOfSupply
\* only (__init__.py lines 34-36), so the threshold override is left absent.
MainEvents == {e \in ParsedEvents : e.threshold = Missing} \cup {GarbageEvent}

Batches(events) == UNION {[1..n -> events] : n \in 0..MaxBatch}

delivery_days_HighAsStandard(priority) ==
    IF priority = "URGENT" THEN 1 ELSE 5

\* stock_function_logic.py lines 122-127
delivery_days(priority) ==
    IF priority = "URGENT" THEN 1 ELSE IF priority = "HIGH" THEN 2 ELSE 5

\* stock_function_logic.py OrderCommandGenerator.create_command, called
\* without command_id and order_id: both are generated (lines 132, 134);
\* the fresh uuid of the commandId is the ordinal of the call.  Dates are
\* kept in days after now, the construction time read at line 119:
\* estimatedDeliveryDate is now + timedelta(days=delivery_days) (line 129).
create_command(event, decision, ordinal, suffix) ==
    [commandId |-> <<"cmd", ordinal>>,
     commandType |-> "CreateOrder",
     orderId |-> GeneratedOrderId(suffix),
     orderQuantity |-> decision.order_quantity,
     priority |-> decision.priority,
     estimatedDeliveryDate |-> delivery_days(decision.priority),
     warehouseId |-> "CENTRAL-WAREHOUSE"]

\* __init__.py lines 40-41
main_order_id(suffix) == <<"ORD-SRV", suffix>>

\* __init__.py lines 63-68
main_command_message(data, order_id, ordinal) ==
    [commandId |-> <<"cmd", ordinal>>,
     commandType |-> "ProcessOrder",
     orderId |-> order_id,
     details |-> data]

\* __init__.py lines 47-58: the row main inserts; its connection commits
\* each statement on its own.
main_order_row(i, order_id) ==
    Row("Orders", i, None, order_id, "", main_QTY, "URGENT", "Serverless", "")

\* What one loop iteration did with its event.
Entry(i, outcome) == [ev |-> i, outcome |-> outcome]

BatchInit ==
    \/ \E events \in Batches(ParsedEvents) :
          batch = [driver |-> "process_events", events |-> events, i |-> 1,
                   state |-> "running", conn |-> FALSE, order_commands |-> <<>>,
                   outputEvent |-> <<>>, trace |-> <<>>]
    \/ \E events \in Batches(MainEvents) :
          batch = [driver |-> "main", events |-> events, i |-> 1,
                   state |-> "start", conn |-> FALSE, order_commands |-> <<>>,
                   outputEvent |-> <<>>, trace |-> <<>>]

\* stock_function_logic.py lines 173-199: one iteration of process_events.
\* evaluate's conversions raise on a non-numeric field and nothing catches
\* the exception: it leaves process_events.
process_events_Step ==
    /\ batch.driver = "process_events" /\ batch.state = "running"
    /\ batch.i <= Len(batch.events)
    /\ LET i == batch.i
           event == batch.events[i]
       IN IF ~ServerlessDecisionEngine_converts(event)
          THEN batch' = [batch EXCEPT !.state = "raised"]
          ELSE LET decision == process_events_decision(event)
               IN IF decision.should_order
                  THEN \E suffix \in Suffixes :
                          batch' = [batch EXCEPT
                              !.order_commands =
                                  Append(@, create_command(event, decision, i, suffix)),
                              !.trace = Append(@, Entry(i, "ordered")),
                              !.i = i + 1]
                  ELSE batch' = [batch EXCEPT
                              !.trace = Append(@, Entry(i, "no_order")),
                              !.i = i + 1]
    /\ UNCHANGED <<eng, calls, store>>

\* stock_function_logic.py line 216: the loop is over, the commands are
\* returned.
process_events_Return ==
    /\ batch.driver = "process_events" /\ batch.state = "running"
    /\ batch.i > Len(batch.events)
    /\ batch' = [batch EXCEPT !.state = "returned"]
    /\ UNCHANGED <<eng, calls, store>>

\* __init__.py lines 17-29: the connection is opened, or conn stays None and
\* the failure is logged.
main_Connect ==
    /\ batch.driver = "main" /\ batch.state = "start"
    /\ \E opened \in BOOLEAN :
          batch' = [batch EXCEPT !.state = "running", !.conn = opened]
    /\ UNCHANGED <<eng, calls, store>>

main_except_Abort(b, i, outcome) ==
    [b EXCEPT !.trace = Append(@, Entry(i, outcome)), !.state = "raised"]

\* __init__.py lines 75-76: the exception of iteration i is logged and the
\* loop goes on with the next event.
main_except(b, i, outcome) ==
    [b EXCEPT !.trace = Append(@, Entry(i, outcome)), !.i = i + 1]

\* The body of event i parses and its daysOfSupply converts (lines 34-36).
main_parses(event) == event.body = "json" /\ Converts(event.daysOfSupply)

main_writes_Always(conn) == TRUE

\* __init__.py line 46, "if conn:": the insert is attempted only with an
\* open connection.
main_writes(conn) == conn

\* __init__.py lines 32-76: one iteration of main.
main_Step ==
    /\ batch.driver = "main" /\ batch.state = "running"
    /\ batch.i <= Len(batch.events)
    /\ LET i == batch.i
           data == batch.events[i]
       IN IF ~main_parses(data)
          THEN /\ batch' = main_except(batch, i, "error")
               /\ UNCHANGED store
          ELSE IF ~main_decision(data).should_order
          THEN /\ batch' = [batch EXCEPT !.trace = Append(@, Entry(i, "no_order")),
                                         !.i = i + 1]
               /\ UNCHANGED store
          ELSE \E suffix \in Suffixes :
                  LET order_id == main_order_id(suffix)
                      emitted == [batch EXCEPT
                          !.outputEvent = <<main_command_message(data, order_id, i)>>,
                          !.trace = Append(@, Entry(i, "emitted")),
                          !.i = i + 1]
                  IN \/ /\ main_writes(batch.conn)
                        /\ store' = store \cup {main_order_row(i, order_id)}
                        /\ batch' = emitted
                     \/ /\ main_writes(batch.conn)
                        /\ batch' = main_except(batch, i, "write_failed")
                        /\ UNCHANGED store
                     \/ /\ ~main_writes(batch.conn)
                        /\ batch' = emitted
                        /\ UNCHANGED store
                     \* lines 70-72 raise: the except of line 75 takes it; the
                     \* row of line 47, committed on its own, stays
                     \/ /\ store' = IF main_writes(batch.conn)
                                    THEN store \cup {main_order_row(i, order_id)}
                                    ELSE store
                        /\ batch' = main_except(batch, i, "emit_failed")
    /\ UNCHANGED <<eng, calls>>

\* __init__.py lines 78-79: the loop is over, the connection is closed.
main_Close ==
    /\ batch.driver = "main" /\ batch.state = "running"
    /\ batch.i > Len(batch.events)
    /\ batch' = [batch EXCEPT !.state = "done", !.conn = FALSE]
    /\ UNCHANGED <<eng, calls, store>>

BatchNext ==
    \/ process_events_Step
    \/ process_events_Return
    \/ main_Connect
    \/ main_Step
    \/ main_Close

\* ------------------------------------------ claims on the batch event path

\* The driver has left the batch: returned, finished, or left by an exception.
BatchOver == batch.state \in {"returned", "done", "raised"}

\* An event whose body parses and whose required numeric fields are numbers
\* (the threshold is optional, but a number when given).
WellFormed(event) ==
    /\ event.body = "json"
    /\ event.daysOfSupply.tag = "num"
    /\ event.dailyConsumptionUnits.tag = "num"
    /\ event.currentStockUnits.tag = "num"
    /\ event.threshold.tag # "text"

\* The outcome the driver recorded for event i, "" when it never reached it.
OutcomeOf(i) ==
    IF \E k \in DOMAIN batch.trace : batch.trace[k].ev = i
    THEN batch.trace[CHOOSE k \in DOMAIN batch.trace : batch.trace[k].ev = i].outcome
    ELSE ""

\* Event i was evaluated: a decision was taken for it.
Evaluated(i) ==
    OutcomeOf(i) \in {"ordered", "emitted", "no_order", "write_failed", "emit_failed"}

\* The outbound batch of the driver: the list process_events returns, the
\* value main leaves in outputEvent.
Outbound ==
    IF batch.driver = "process_events" THEN batch.order_commands ELSE batch.outputEvent

\* The commands of the outbound batch made for event i.
CommandsFor(i) == {k \in DOMAIN Outbound : Outbound[k].commandId = <<"cmd", i>>}

\* C8: a malformed event never aborts the batch; every well-formed event of
\* the batch is evaluated, wherever the malformed one stands.
C8_MalformedNeverAborts ==
    BatchOver =>
        /\ batch.state # "raised"
        /\ \A i \in DOMAIN batch.events : WellFormed(batch.events[i]) => Evaluated(i)

\* C9: in the outbound batch of a finished batch every well-formed event
\* decided shouldOrder=true (and written, where the driver writes) has
\* exactly one command: none is lost or overwritten by a later event; and an
\* event that was skipped or decided shouldOrder=false has none.
C9_OneCommandPerTrigger ==
    batch.state \in {"returned", "done"} =>
        \A i \in DOMAIN batch.events :
            /\ (WellFormed(batch.events[i]) /\ OutcomeOf(i) \in {"ordered", "emitted"}) =>
                  Cardinality(CommandsFor(i)) = 1
            /\ OutcomeOf(i) \notin {"ordered", "emitted"} => CommandsFor(i) = {}

\* C10: in main, an event whose order insert failed gets no command, the
\* driver is not left by the exception, and when it finishes every event of
\* the batch has been processed.
C10_WriteFailureSkipsCommand ==
    \A i \in DOMAIN batch.events :
        (batch.driver = "main" /\ OutcomeOf(i) = "write_failed") =>
            /\ CommandsFor(i) = {}
            /\ batch.state # "raised"
            /\ batch.state = "done" =>
                  \A j \in DOMAIN batch.events : OutcomeOf(j) # ""

\* main finished a batch whose first event's insert failed and whose second
\* event was written and emitted.
C10_Witness ==
    /\ batch.driver = "main" /\ batch.state = "done"
    /\ Len(batch.events) >= 2
    /\ OutcomeOf(1) = "write_failed"
    /\ OutcomeOf(2) = "emitted"
    /\ CommandsFor(2) # {}
    /\ \E r \in store : r.xmin = 2

\* The orders main wrote for event i (its row carries the iteration as xmin).
OrdersFor(i) == {r \in store : r.table = "Orders" /\ r.xmin = i}

\* C11: when the same low-inventory event (same eventId) stands more than
\* once in the batch, at most one of its deliveries gets an order command and
\* at most one gets an order.
C11_OncePerEventId ==
    \A i, j \in DOMAIN batch.events :
        (/\ i # j
         /\ batch.events[i].body = "json"
         /\ batch.events[j].body = "json"
         /\ batch.events[i].eventId = batch.events[j].eventId) =>
            /\ ~(OutcomeOf(i) \in {"ordered", "emitted"} /\ OutcomeOf(j) \in {"ordered", "emitted"})
            /\ ~(OrdersFor(i) # {} /\ OrdersFor(j) # {})

\* C13: main never completes normally on a batch (here of well-formed events)
\* in which the emission of a command failed: the failure leaves the driver.
C13_EmitFailurePropagates ==
    (/\ batch.driver = "main"
     /\ \A j \in DOMAIN batch.events : WellFormed(batch.events[j])
     /\ \E i \in DOMAIN batch.events : OutcomeOf(i) = "emit_failed") =>
        batch.state # "done"

\* The decision log entries the store holds for event i of the batch.
DecisionLogsFor(i) == {r \in store : r.table = "DecisionLogs" /\ r.xmin = i}

\* C16: every event the batch driver main evaluated has exactly one decision
\* log entry, ORDER_CREATED when it triggered and ORDER_SKIPPED otherwise.
C16_OneDecisionLogPerReading ==
    \A i \in DOMAIN batch.events :
        (/\ batch.driver = "main" /\ batch.conn
         /\ WellFormed(batch.events[i])
         /\ OutcomeOf(i) \in {"emitted", "no_order"}) =>
            /\ Cardinality(DecisionLogsFor(i)) = 1
            /\ \A r \in DecisionLogsFor(i) :
                  r.decision_type = IF OutcomeOf(i) = "emitted" THEN "ORDER_CREATED"
                                    ELSE "ORDER_SKIPPED"

\* main takes event i as one that triggers an order.
main_triggers(i) ==
    main_parses(batch.events[i]) /\ main_decision(batch.events[i]).should_order

\* C24: while main runs a batch whose store connection could not be opened,
\* the driver is not left by an exception, every triggering event it has
\* passed has reached the emission of its command (the command is the value
\* of the output binding right after it, unless the emission itself failed),
\* and no order row was written for any event.
C24_NoConnectionStillEmits ==
    (batch.driver = "main" /\ batch.state = "running" /\ ~batch.conn) =>
        /\ store = {}
        /\ \A i \in DOMAIN batch.events :
              (i < batch.i /\ main_triggers(i)) =>
                  /\ OutcomeOf(i) \in {"emitted", "emit_failed"}
                  /\ (OutcomeOf(i) = "emitted" /\ i = batch.i - 1) =>
                        /\ CommandsFor(i) # {}
                        /\ \A k \in CommandsFor(i) : Outbound[k].orderId[1] = "ORD-SRV"

\* main, without a connection, has passed a whole batch of two events: the
\* command of the second is bound for an order id no row of the store holds.
C24_Witness ==
    /\ batch.driver = "main" /\ batch.state = "running" /\ ~batch.conn
    /\ Len(batch.events) = 2 /\ batch.i = 3
    /\ OutcomeOf(1) = "emitted" /\ OutcomeOf(2) = "emitted"
    /\ batch.outputEvent # <<>>
    /\ \A r \in store : r.order_id # batch.outputEvent[1].orderId

\* ------------------------------------- the builder, applied to a decision

\* The priority values a decision handed to create_command may carry: the
\* engine's own (URGENT, HIGH, None) and values of the manual-order payload.
Priorities == {"URGENT", "HIGH", NONE, "NORMAL", "LOW"}

\* create_command is applied to the decision process_events took for the
\* reading, or to that decision under another priority value.
EngCreateCommand ==
    /\ eng.serverless # <<>>
    /\ eng.command = <<>>
    /\ \E priority \in Priorities, suffix \in Suffixes :
          LET decision == [eng.serverless[1] EXCEPT !.priority = priority]
          IN eng' = [eng EXCEPT !.command =
                        <<create_command(EventOf(eng.reading), decision, 1, suffix)>>]
    /\ UNCHANGED <<calls, store, batch>>

EngNext == EngStockUpdate \/ EngProcessEvents \/ EngMain \/ EngCreateCommand

\* A field of the reading is negative.
NegativeReading ==
    \/ eng.reading.daysOfSupply < 0
    \/ eng.reading.dailyConsumptionUnits < 0
    \/ eng.reading.currentStockUnits < 0

\* C12: a reading with a negative daysOfSupply, dailyConsumption or
\* currentStock is never treated as a valid low reading: neither Decision
\* Engine returns a decision to order for it.
C12_NegativeFailsClosed ==
    NegativeReading => \A e \in EngineDecisions : e.d.should_order = FALSE

\* C14: for a triggering reading with non-negative dailyConsumption and
\* currentStock (dailyConsumption = 0 included), the Order the synchronous
\* path persists and the OrderCommand the builder makes from the decision have
\* orderQuantity >= 1.
C14_OrderQuantityPositive ==
    (~NegativeReading) =>
        /\ \A i \in DOMAIN eng.soap :
              eng.soap[i].should_order =>
                  \A suffix \in Suffixes :
                      OrderRow(1, GeneratedOrderId(suffix), eng.soap[i]).order_quantity >= 1
        /\ \A i \in DOMAIN eng.command :
              eng.serverless[1].should_order => eng.command[i].orderQuantity >= 1

\* C19: the command's estimatedDeliveryDate is the construction time plus 1
\* day for priority URGENT, plus 2 days for HIGH and plus 5 days for any
\* other priority, whatever the reading and the quantity.
C19_DeliveryOffsetByPriority ==
    \A i \in DOMAIN eng.command :
        eng.command[i].estimatedDeliveryDate =
            CASE eng.command[i].priority = "URGENT" -> 1
              [] eng.command[i].priority = "HIGH" -> 2
              [] OTHER -> 5

\* Commands were built for an URGENT decision handed over as HIGH, and for a
\* decision carrying a priority the engine never returns.
C19_Witness ==
    /\ eng.command # <<>>
    /\ eng.serverless[1].priority = "URGENT"
    /\ eng.command[1].priority = "LOW"
    /\ eng.command[1].estimatedDeliveryDate = 5
    /\ eng.command[1].orderQuantity > 1

\* ------------------------------------------------------- specifications

BatchIdle == batch = <<>>
SyncIdle == calls = <<>> /\ store = {}
EngIdle == eng = <<>>

SyncNext ==
    \E w \in Workers :
        \/ StockUpdate_Receive(w)
        \/ StockUpdate_Connect(w)
        \/ StockUpdate_InsertEvent(w)
        \/ StockUpdate_Decide(w)
        \/ StockUpdate_InsertOrder(w)
        \/ StockUpdate_InsertCreatedLog(w)
        \/ StockUpdate_InsertSkippedLog(w)
        \/ StockUpdate_InsertESBLog(w)
        \/ StockUpdate_Commit(w)
        \/ CreateOrder_Receive(w)
        \/ CreateOrder_Connect(w)
        \/ CreateOrder_InsertOrder(w)
        \/ CreateOrder_InsertESBLog(w)
        \/ CreateOrder_Commit(w)
        \/ stock_update_service(w)

InitEngine == EngInit /\ SyncIdle /\ BatchIdle

InitSync == SyncInit /\ EngIdle /\ BatchIdle

\* The decision engines and the three decision paths, applied to one reading.
SpecEngine == InitEngine /\ [][EngNext]_vars

InitBatch == BatchInit /\ EngIdle /\ SyncIdle

\* One inbound batch handed to one of the two batch drivers.
SpecBatch == InitBatch /\ [][BatchNext]_vars

\* The synchronous endpoints, served by NumWorkers concurrent worker threads.
SpecSync == InitSync /\ [][SyncNext]_vars

====
